---- MODULE Spec2Model ----
(***************************************************************************)
(* dtb2x: the DTB reader (line grammar and Group/Team/Player hierarchy),   *)
(* the row projection and the CSV conversion driver.                       *)
(*                                                                         *)
(* A line is a TLA+ string.  Python's None is the empty tuple <<>> and a   *)
(* present value v is the one-element tuple <<v>>, so that None and the    *)
(* empty string '' stay different, as they are in the program.             *)
(***************************************************************************)
EXTENDS Integers, Sequences, FiniteSets, TLC

None == <<>>

Some(v) == <<v>>

(***************************************************************************)
(* Regular expressions, matched the way Python's backtracking `re` engine  *)
(* matches them: alternatives are tried in priority order (a greedy        *)
(* quantifier tries the longest repetition first, an optional part is      *)
(* tried before it is skipped) and the first complete match wins.          *)
(***************************************************************************)

\* A literal character.
Lit(c) == [t |-> "lit", c |-> c]

\* X? : the sub-pattern, greedy optional.
Opt(sub) == [t |-> "opt", sub |-> sub]

\* (?P<name>X) : a named capture group around the sub-pattern.
Cap(name, sub) == [t |-> "cap", name |-> name, sub |-> sub]

\* The end of the capture group `name`, which began at position `from`.
CapEnd(name, from) == [t |-> "capend", name |-> name, from |-> from]

\* [class]* and [class]+ : greedy repetition of a character class.
Star(cls) == [t |-> "rep", cls |-> cls, min |-> 0]

Plus(cls) == [t |-> "rep", cls |-> cls, min |-> 1]

\* A character class: the characters listed, or (neg) all the others.
Only(chars) == [neg |-> FALSE, chars |-> chars]

Except(chars) == [neg |-> TRUE, chars |-> chars]

Digits == {"0", "1", "2", "3", "4", "5", "6", "7", "8", "9"}

\* `.` matches any character but the newline (no DOTALL flag is given).
Dot == Except({"\n"})

GroupNames == {"name", "note", "registration_number", "surname", "date_of_birth"}

NoCaptures == [n \in GroupNames |-> None]

\* The character of `line` at position pos (1-based); "" past the end.
At(line, pos) == IF pos >= 1 /\ pos <= Len(line) THEN SubSeq(line, pos, pos) ELSE ""

InClass(c, cls) == c # "" /\ ((c \in cls.chars) # cls.neg)

RECURSIVE Run(_, _, _)
\* The length of the longest run of characters of cls that starts at pos.
Run(line, pos, cls) ==
    IF InClass(At(line, pos), cls) THEN 1 + Run(line, pos + 1, cls) ELSE 0

RECURSIVE Match(_, _, _, _)
RECURSIVE Repeat(_, _, _, _, _)
\* Match the pattern `items` against line from pos on, to the end of the
\* line: None, or Some(captures) of the first match in priority order.
Match(items, line, pos, caps) ==
    IF items = <<>>
    THEN IF pos = Len(line) + 1 THEN Some(caps) ELSE None
    ELSE LET it == Head(items)
             rest == Tail(items)
         IN  CASE it.t = "lit" ->
                    IF At(line, pos) = it.c
                    THEN Match(rest, line, pos + 1, caps)
                    ELSE None
               [] it.t = "opt" ->
                    LET taken == Match(it.sub \o rest, line, pos, caps)
                    IN  IF taken # None THEN taken
                        ELSE Match(rest, line, pos, caps)
               [] it.t = "cap" ->
                    Match(it.sub \o <<CapEnd(it.name, pos)>> \o rest, line, pos, caps)
               [] it.t = "capend" ->
                    Match(rest, line, pos,
                          [caps EXCEPT ![it.name] = Some(SubSeq(line, it.from, pos - 1))])
               [] it.t = "rep" ->
                    Repeat(items, line, pos, caps, Run(line, pos, it.cls))

\* The greedy repetition at the head of items, taking k characters, then
\* k - 1, ... down to its minimum, until the rest of the pattern matches.
Repeat(items, line, pos, caps, k) ==
    IF k < Head(items).min THEN None
    ELSE LET r == Match(Tail(items), line, pos + k, caps)
         IN  IF r # None THEN r
             ELSE Repeat(items, line, pos, caps, k - 1)

\* re.fullmatch: the whole line must match; None or Some(captures).
fullmatch(re, line) == Match(re, line, 1, NoCaptures)

\* GROUP_RE_STRICT whose separator "- " lost its space: '^(([^\t]*) )?-(.+)?\n$'.
GROUP_RE_STRICT_no_space ==
    << Opt(<<Cap("name", <<Star(Except({"\t"}))>>), Lit(" ")>>),
       Lit("-"),
       Opt(<<Cap("note", <<Plus(Dot)>>)>>),
       Lit("\n") >>

GROUP_RE_STRICT ==
    << Opt(<<Cap("name", <<Star(Except({"\t"}))>>), Lit(" ")>>),
       Lit("-"), Lit(" "),
       Opt(<<Cap("note", <<Plus(Dot)>>)>>),
       Lit("\n") >>

GROUP_RE_LOOSE ==
    << Opt(<<Cap("name", <<Star(Except({"\t"}))>>), Lit(" ")>>),
       Lit("-"), Opt(<<Lit(" ")>>),
       Opt(<<Cap("note", <<Plus(Dot)>>)>>),
       Lit("\n") >>

TEAM_RE_STRICT == <<Lit("\t")>> \o GROUP_RE_STRICT

TEAM_RE_LOOSE == <<Lit("\t")>> \o GROUP_RE_LOOSE

PLAYER_RE_STRICT ==
    << Lit("\t"), Lit("\t"),
       Opt(<<Cap("registration_number", <<Star(Only(Digits))>>), Lit(" ")>>),
       Lit("-"), Lit(" "),
       Opt(<<Cap("surname", <<Plus(Except({" ", ","}))>>)>>),
       Lit(" "),
       Opt(<<Cap("name", <<Plus(Except({","}))>>)>>),
       Lit(","), Lit(" "),
       Opt(<<Cap("date_of_birth", <<Plus(Only(Digits \cup {"."}))>>)>>),
       Plus(Only({" "})), Lit(","), Lit(" "),
       Opt(<<Cap("note", <<Plus(Dot)>>)>>),
       Lit("\n") >>

PLAYER_RE_LOOSE ==
    << Lit("\t"), Lit("\t"),
       Opt(<<Cap("registration_number", <<Star(Only(Digits))>>), Lit(" ")>>),
       Lit("-"), Lit(" "),
       Opt(<<Cap("surname", <<Plus(Except({" ", ","}))>>)>>),
       Lit(" "),
       Opt(<<Cap("name", <<Plus(Except({","}))>>)>>),
       Opt(<<Lit(",")>>), Opt(<<Lit(" ")>>),
       Opt(<<Cap("date_of_birth", <<Plus(Only(Digits \cup {"."}))>>)>>),
       Plus(Only({" "})), Opt(<<Lit(",")>>), Opt(<<Lit(" ")>>),
       Opt(<<Cap("note", <<Plus(Dot)>>)>>),
       Lit("\n") >>

(***************************************************************************)
(* The entities.  oid stands for the identity of the Python object: the    *)
(* ordinal of the read call that constructed it.                           *)
(***************************************************************************)

Group(name, note, oid) ==
    [kind |-> "Group", name |-> name, note |-> note, oid |-> oid]

Team(name, note, group, oid) ==
    [kind |-> "Team", name |-> name, note |-> note, group |-> group, oid |-> oid]

Player(registration_number, name, surname, date_of_birth, note, team, oid) ==
    [kind |-> "Player", registration_number |-> registration_number,
     name |-> name, surname |-> surname, date_of_birth |-> date_of_birth,
     note |-> note, team |-> team, oid |-> oid]

\* Team.to_list without the fields of the group (the ancestor is left out).
Team_to_list_own_fields(team) == <<team.name, team.note>>

\* Player.to_list with the surname before the name, as on the input line.
Player_to_list_surname_first(player) ==
    <<player.team.group.name, player.team.group.note,
      player.team.name, player.team.note,
      player.registration_number, player.surname, player.name,
      player.date_of_birth, player.note>>

Group_to_list(group) == <<group.name, group.note>>

Team_to_list(team) == Group_to_list(team.group) \o <<team.name, team.note>>

Player_to_list(player) ==
    Team_to_list(player.team) \o
    <<player.registration_number, player.name, player.surname,
      player.date_of_birth, player.note>>

\* entity.to_list(), dispatched on the class of the entity.
to_list(entity) ==
    CASE entity.kind = "Group" -> Group_to_list(entity)
      [] entity.kind = "Team" -> Team_to_list(entity)
      [] entity.kind = "Player" -> Player_to_list(entity)

\* The column labels.  The program's labels are Czech; they are written
\* here without their diacritics, which a TLA+ string cannot hold.
Group_header == <<Some("Nazev, Oddil"), Some("Poznamka, Oddil")>>

Team_header == <<Some("Nazev, Druzstvo"), Some("Poznamka, Druzstvo")>>

Player_header ==
    <<Some("Reg. cislo, Hrac"), Some("Jmeno, Hrac"), Some("Prijmeni, Hrac"),
      Some("Datum nar., Hrac"), Some("Poznamka, Hrac")>>

\* csv.writer.writerow(row): the record written, one cell per field; None
\* is written as the empty string.
writerow(row) == [i \in 1..Len(row) |-> IF row[i] = None THEN "" ELSE row[i][1]]

\* The messages of the three DtbReader.InvalidDtbFileError raised by read.
\* The program puts the line between two backquotes; a backquote cannot be
\* written in a TLA+ string, so an apostrophe stands for it here.
TeamWithoutGroup(line) == "DtbReader: Team without Group:'" \o line \o "'"

PlayerWithoutTeam(line) == "DtbReader: Player without team:'" \o line \o "'"

\* UnknownLineType without the line.
UnknownLineType_no_line(line) == "DtbReader: Unknown line type"

UnknownLineType(line) == "DtbReader: Unknown line type:'" \o line \o "'"

\* The outcome of a call: the entity returned or the message of the error
\* raised, and the reader's fields after the call.
Return(entity, cg, ct) ==
    [returned |-> Some(entity), raised |-> None,
     current_group |-> cg, current_team |-> ct]

\* Raise that leaves a reader with nothing set.
Raise_resets(message, cg, ct) ==
    [returned |-> None, raised |-> Some(message),
     current_group |-> None, current_team |-> None]

Raise(message, cg, ct) ==
    [returned |-> None, raised |-> Some(message),
     current_group |-> cg, current_team |-> ct]

group_re(strict) == IF strict THEN GROUP_RE_STRICT ELSE GROUP_RE_LOOSE

\* team_re whose loose branch takes the Group pattern.
team_re_loose_is_group(strict) == IF strict THEN TEAM_RE_STRICT ELSE GROUP_RE_LOOSE

team_re(strict) == IF strict THEN TEAM_RE_STRICT ELSE TEAM_RE_LOOSE

\* player_re with the loose pattern of Teams.
player_re_loose_is_team(strict) == IF strict THEN PLAYER_RE_STRICT ELSE TEAM_RE_LOOSE

player_re(strict) == IF strict THEN PLAYER_RE_STRICT ELSE PLAYER_RE_LOOSE

\* read_group without `self.current_team = None`.
read_group_keeps_team(m, cg, ct, line, oid) ==
    LET group == Group(m["name"], m["note"], oid)
    IN  Return(group, Some(group), ct)

\* read_group that sets current_group only while it is unset (first-seen).
read_group_first_seen(m, cg, ct, line, oid) ==
    LET group == Group(m["name"], m["note"], oid)
    IN  Return(group, IF cg = None THEN Some(group) ELSE cg, None)

\* read, lines 153-158: the line is a Group.
read_group(m, cg, ct, line, oid) ==
    LET group == Group(m["name"], m["note"], oid)
    IN  Return(group, Some(group), None)

\* read_team without the test of current_group: the Team of a reader with
\* no Group gets None as its group.
read_team_unchecked(m, cg, ct, line, oid) ==
    LET team == Team(m["name"], m["note"], IF cg = None THEN None ELSE cg[1], oid)
    IN  Return(team, cg, Some(team))

\* read_team that reports a Team without Group as a line of no shape.
read_team_unknown_line(m, cg, ct, line, oid) ==
    IF cg = None
    THEN Raise(UnknownLineType(line), cg, ct)
    ELSE LET team == Team(m["name"], m["note"], cg[1], oid)
         IN  Return(team, cg, Some(team))

\* read_team that makes the Team current before it tests current_group.
read_team_sets_before_test(m, cg, ct, line, oid) ==
    LET team == Team(m["name"], m["note"], IF cg = None THEN None ELSE cg[1], oid)
    IN  IF cg = None
        THEN Raise(TeamWithoutGroup(line), cg, Some(team))
        ELSE Return(team, cg, Some(team))

\* read, lines 161-169: the line is a Team.
read_team(m, cg, ct, line, oid) ==
    IF cg = None
    THEN Raise(TeamWithoutGroup(line), cg, ct)
    ELSE LET team == Team(m["name"], m["note"], cg[1], oid)
         IN  Return(team, cg, Some(team))

\* read_player that tests current_group where it should test current_team.
read_player_tests_group(m, cg, ct, line, oid) ==
    IF cg = None
    THEN Raise(PlayerWithoutTeam(line), cg, ct)
    ELSE LET player == Player(m["registration_number"], m["name"],
                              m["surname"], m["date_of_birth"],
                              m["note"], IF ct = None THEN None ELSE ct[1], oid)
         IN  Return(player, cg, ct)

\* read_player that forgets the Team once it has a Player.
read_player_clears_team(m, cg, ct, line, oid) ==
    IF ct = None
    THEN Raise(PlayerWithoutTeam(line), cg, ct)
    ELSE LET player == Player(m["registration_number"], m["name"],
                              m["surname"], m["date_of_birth"],
                              m["note"], ct[1], oid)
         IN  Return(player, cg, None)

\* read, lines 172-181: the line is a Player.
read_player(m, cg, ct, line, oid) ==
    IF ct = None
    THEN Raise(PlayerWithoutTeam(line), cg, ct)
    ELSE LET player == Player(m["registration_number"], m["name"],
                              m["surname"], m["date_of_birth"],
                              m["note"], ct[1], oid)
         IN  Return(player, cg, ct)

\* DtbReader.read(line, strict) on a reader whose fields are cg and ct, as
\* the oid-th call.
read(cg, ct, line, strict, oid) ==
    LET group_match == fullmatch(group_re(strict), line)
        team_match == fullmatch(team_re(strict), line)
        player_match == fullmatch(player_re(strict), line)
    IN  IF group_match # None
        THEN read_group(group_match[1], cg, ct, line, oid)
        ELSE IF team_match # None
        THEN read_team(team_match[1], cg, ct, line, oid)
        ELSE IF player_match # None
        THEN read_player(player_match[1], cg, ct, line, oid)
        ELSE Raise(UnknownLineType(line), cg, ct)

(***************************************************************************)
(* The state: one DtbReader, and the calls made on it so far.              *)
(***************************************************************************)
VARIABLES
    current_group,  \* DtbReader.current_group: None or Some(Group)
    current_team,   \* DtbReader.current_team: None or Some(Team)
    log,            \* the calls of read so far, in order, with their outcomes
    dtb_input,      \* convert: the lines of the input file, in order
    convert_strict, \* convert: its argument strict
    csv_output,     \* convert: the records written to the output, in order
    pc,             \* convert: where the call is; "reader" when there is none
    dtb_strict_mode, \* Application: the value held by the BooleanVar dtb_strict_mode
    dialog,         \* Application: None, or Some(the message box convert showed last)
    earlier         \* the tracker the conversion before this one ended with

reader_vars == <<current_group, current_team, log>>

convert_vars == <<dtb_input, convert_strict, csv_output, pc>>

app_vars == <<dtb_strict_mode, dialog, earlier>>

vars ==
    <<current_group, current_team, log, dtb_input, convert_strict, csv_output, pc,
      dtb_strict_mode, dialog, earlier>>

\* The number of calls of read in a behaviour.
MaxReads == 4

\* The lines read: a Group, a Team and a Player line, and a Group and a Team
\* line that only loose mode accepts (in strict mode they have no shape).
Lines ==
    { "g - n\n", "h -m\n",
      "\tt - n\n", "\tu -\n",
      "\t\t1 - s n, 1.1 , x\n" }

\* The shape of a line in a mode: which of the three patterns, tried in
\* the order of read, matches it first; "Unknown" if none does.
Shape(line, strict) ==
    IF fullmatch(group_re(strict), line) # None THEN "Group"
    ELSE IF fullmatch(team_re(strict), line) # None THEN "Team"
    ELSE IF fullmatch(player_re(strict), line) # None THEN "Player"
    ELSE "Unknown"

\* The record of one call of read.
Call(line, strict, r) ==
    [line |-> line, strict |-> strict, shape |-> Shape(line, strict),
     before |-> [current_group |-> current_group, current_team |-> current_team],
     returned |-> r.returned, raised |-> r.raised]

\* DtbReader.__init__; no conversion is under way.
Init ==
    /\ current_group = None
    /\ current_team = None
    /\ log = <<>>
    /\ dtb_input = <<>>
    /\ convert_strict = TRUE
    /\ csv_output = <<>>
    /\ pc = "reader"
    /\ dtb_strict_mode = TRUE
    /\ dialog = None
    /\ earlier = None

\* One call reader.read(line, strict=strict).
Read(line, strict) ==
    /\ Len(log) < MaxReads
    /\ LET r == read(current_group, current_team, line, strict, Len(log) + 1)
       IN  /\ current_group' = r.current_group
           /\ current_team' = r.current_team
           /\ log' = Append(log, Call(line, strict, r))
    /\ UNCHANGED <<convert_vars, app_vars>>

Next == \E line \in Lines, strict \in BOOLEAN : Read(line, strict)

Spec == Init /\ [][Next]_vars

(***************************************************************************)
(* ConverterCsv.convert(dtb_input, csv_output, strict): one call, on every *)
(* input of at most MaxInput lines, in either mode.  log holds the calls   *)
(* of read that the conversion made.                                       *)
(***************************************************************************)

\* The number of lines of an input file.
MaxInput == 3

\* The example of the README.
ExampleInput ==
    << "group_name - group_note\n",
       "\tteam_name - team_note\n",
       "\t\t00001234 - player_surname player_name, 01.01.1900 , player_note\n" >>

\* The lines of the input files: those of the example, another Team line,
\* a Group line that only loose mode accepts, and a line of no shape.
ConvertLines ==
    { ExampleInput[1], ExampleInput[2], ExampleInput[3],
      "\tteam - note\n", "h -m\n", "x\n" }

\* Iterating over a file yields every line with its terminator, but the
\* last line when the file does not end in one.
UnterminatedLines == { "h - m" }

RECURSIVE Seqs(_, _)
\* The sequences of at most n elements of S.
Seqs(S, n) ==
    IF n = 0 THEN {<<>>}
    ELSE LET shorter == Seqs(S, n - 1)
         IN  shorter \cup {Append(q, x) : q \in shorter, x \in S}

Inputs ==
    { f \in Seqs(ConvertLines \cup UnterminatedLines, MaxInput) :
        \A i \in 1..(Len(f) - 1) : f[i] \in ConvertLines }

\* convert is called.
InitConvert ==
    /\ current_group = None
    /\ current_team = None
    /\ log = <<>>
    /\ dtb_input \in Inputs
    /\ convert_strict \in BOOLEAN
    /\ csv_output = <<>>
    /\ pc = "convert"
    /\ dtb_strict_mode = TRUE
    /\ dialog = None
    /\ earlier = None

\* convert_begin that goes on with the reader of the conversion before.
convert_begin_keeps_reader ==
    /\ pc = "convert"
    /\ csv_output' = Append(csv_output,
                            writerow(Group_header \o Team_header \o Player_header))
    /\ pc' = "loop"
    /\ UNCHANGED <<current_group, current_team, log, dtb_input, convert_strict, app_vars>>

\* convert, lines 233-237: the reader and the writer are made and the
\* header is written.
convert_begin ==
    /\ pc = "convert"
    /\ current_group' = None
    /\ current_team' = None
    /\ csv_output' = Append(csv_output,
                            writerow(Group_header \o Team_header \o Player_header))
    /\ pc' = "loop"
    /\ UNCHANGED <<log, dtb_input, convert_strict, app_vars>>

\* convert_line that writes the header before every row.
convert_line_with_header ==
    /\ pc = "loop"
    /\ Len(log) < Len(dtb_input)
    /\ LET line == dtb_input[Len(log) + 1]
           r == read(current_group, current_team, line, convert_strict, Len(log) + 1)
       IN  /\ current_group' = r.current_group
           /\ current_team' = r.current_team
           /\ log' = Append(log, Call(line, convert_strict, r))
           /\ IF r.returned # None
              THEN /\ csv_output' =
                          csv_output \o
                          << writerow(Group_header \o Team_header \o Player_header),
                             writerow(to_list(r.returned[1])) >>
                   /\ pc' = "loop"
              ELSE /\ csv_output' = csv_output
                   /\ pc' = "raised"
    /\ UNCHANGED <<dtb_input, convert_strict, app_vars>>

\* convert_line that skips a line read cannot read and goes on.
convert_line_skips_errors ==
    /\ pc = "loop"
    /\ Len(log) < Len(dtb_input)
    /\ LET line == dtb_input[Len(log) + 1]
           r == read(current_group, current_team, line, convert_strict, Len(log) + 1)
       IN  /\ current_group' = r.current_group
           /\ current_team' = r.current_team
           /\ log' = Append(log, Call(line, convert_strict, r))
           /\ csv_output' = IF r.returned # None
                            THEN Append(csv_output, writerow(to_list(r.returned[1])))
                            ELSE csv_output
           /\ pc' = "loop"
    /\ UNCHANGED <<dtb_input, convert_strict, app_vars>>

\* convert, lines 238-241, one turn of the loop: the next line is read and
\* the row of its entity is written; the error of read leaves convert.
convert_line ==
    /\ pc = "loop"
    /\ Len(log) < Len(dtb_input)
    /\ LET line == dtb_input[Len(log) + 1]
           r == read(current_group, current_team, line, convert_strict, Len(log) + 1)
       IN  /\ current_group' = r.current_group
           /\ current_team' = r.current_team
           /\ log' = Append(log, Call(line, convert_strict, r))
           /\ IF r.returned # None
              THEN /\ csv_output' = Append(csv_output, writerow(to_list(r.returned[1])))
                   /\ pc' = "loop"
              ELSE /\ csv_output' = csv_output
                   /\ pc' = "raised"
    /\ UNCHANGED <<dtb_input, convert_strict, app_vars>>

\* convert_end that takes an input without Players for an invalid one.
convert_end_wants_player ==
    /\ pc = "loop"
    /\ Len(log) = Len(dtb_input)
    /\ pc' = IF \E i \in 1..Len(log) : log[i].shape = "Player"
             THEN "returned" ELSE "raised"
    /\ UNCHANGED <<reader_vars, dtb_input, convert_strict, csv_output, app_vars>>

\* convert, line 238: the input is exhausted and convert returns.
convert_end ==
    /\ pc = "loop"
    /\ Len(log) = Len(dtb_input)
    /\ pc' = "returned"
    /\ UNCHANGED <<reader_vars, dtb_input, convert_strict, csv_output, app_vars>>

NextConvert == convert_begin \/ convert_line \/ convert_end

SpecConvert == InitConvert /\ [][NextConvert]_vars

RECURSIVE convert_from(_, _, _, _, _)
\* convert, lines 238-241, as a function of the file and the mode: the
\* outcome of the loop from the i-th line on, with a reader whose fields
\* are cg and ct: the error raised or None, the number of lines read and
\* the number of rows written.
convert_from(file, strict, cg, ct, i) ==
    IF i > Len(file)
    THEN [raised |-> None, reads |-> Len(file), rows |-> Len(file)]
    ELSE LET r == read(cg, ct, file[i], strict, i)
         IN  IF r.returned = None
             THEN [raised |-> r.raised, reads |-> i, rows |-> i - 1]
             ELSE convert_from(file, strict, r.current_group, r.current_team, i + 1)

\* convert, lines 233-241: the outcome of convert(file, _, strict).
convert(file, strict) == convert_from(file, strict, None, None, 1)

\* WF_vars(convert_line), by the definition of WF.  read returns or raises
\* on every line, so convert_line is enabled exactly when the loop has a
\* line left to read.
Fair_convert_line ==
    \/ []<>~(pc = "loop" /\ Len(log) < Len(dtb_input))
    \/ []<><<convert_line>>_vars

\* A conversion runs on: convert is sequential code that waits for nothing,
\* so each of its steps is taken when it is the next one.
SpecConvertLive ==
    /\ SpecConvert
    /\ WF_vars(convert_begin)
    /\ Fair_convert_line
    /\ WF_vars(convert_end)

(***************************************************************************)
(* Application: the window, its check box "DTB strict mode" and its       *)
(* button "Convert", pressed any number of times.  Every conversion is    *)
(* that of ConverterCsv.convert above, on an input file of at most         *)
(* MaxAppInput lines.  The files are there and the output is a .csv file.  *)
(***************************************************************************)
MaxAppInput == 2

AppInputs ==
    Seqs({ ExampleInput[1], ExampleInput[2], ExampleInput[3], "h -m\n", "x\n" },
         MaxAppInput)

\* Application.__init__, lines 250-251.
InitApp ==
    /\ current_group = None
    /\ current_team = None
    /\ log = <<>>
    /\ dtb_input = <<>>
    /\ convert_strict = TRUE
    /\ csv_output = <<>>
    /\ pc = "idle"
    /\ dtb_strict_mode = TRUE
    /\ dialog = None
    /\ earlier = None

\* The Checkbutton of lines 272-273 is clicked.
Checkbutton ==
    /\ pc = "idle"
    /\ dtb_strict_mode' = ~dtb_strict_mode
    /\ UNCHANGED <<reader_vars, convert_vars, dialog, earlier>>

\* bool(self.dtb_strict_mode), line 363: the truth value of the BooleanVar
\* object, which defines neither __bool__ nor __len__, and not of the value
\* the object holds.
BooleanVar_bool(value) == TRUE

\* Application.convert, lines 340-346: the files are opened, the output
\* empty, and converter.convert is called with the value of the check box.
\* The tracker of the conversion before is no longer referenced; its
\* fields stay as they were until convert makes the new one.
Application_convert(file) ==
    /\ pc = "idle"
    /\ dtb_input' = file
    /\ convert_strict' = dtb_strict_mode
    /\ csv_output' = <<>>
    /\ log' = <<>>
    /\ dialog' = None
    /\ pc' = "convert"
    /\ UNCHANGED <<current_group, current_team, dtb_strict_mode, earlier>>

\* Application.convert, lines 360-365: convert raised InvalidDtbFileError.
Application_showerror ==
    /\ pc = "raised"
    /\ LET message == log[Len(log)].raised[1]
       IN  dialog' =
             Some([title |-> "Error",
                   message |-> IF BooleanVar_bool(dtb_strict_mode)
                               THEN message \o "\n\nTry again without DTB strict mode."
                               ELSE message])
    /\ earlier' = Some([current_group |-> current_group, current_team |-> current_team])
    /\ pc' = "idle"
    /\ UNCHANGED <<reader_vars, dtb_input, convert_strict, csv_output, dtb_strict_mode>>

\* Application.convert, lines 366-369: convert returned.
Application_showinfo ==
    /\ pc = "returned"
    /\ dialog' = Some([title |-> "Success",
                       message |-> "Conversion finished! File saved to 'out.csv'."])
    /\ earlier' = Some([current_group |-> current_group, current_team |-> current_team])
    /\ pc' = "idle"
    /\ UNCHANGED <<reader_vars, dtb_input, convert_strict, csv_output, dtb_strict_mode>>

\* The button "Convert" is pressed, with any input file selected.
Convert == pc = "idle" /\ \E file \in AppInputs : Application_convert(file)

NextApp ==
    \/ Checkbutton
    \/ Convert
    \/ convert_begin
    \/ convert_line
    \/ convert_end
    \/ Application_showerror
    \/ Application_showinfo

SpecApp == InitApp /\ [][NextApp]_vars

(***************************************************************************)
(* Properties of sequences of reads.                                       *)
(***************************************************************************)

\* The i-th call returned an entity of the given kind.
Returned(i, kind) ==
    log[i].returned # None /\ log[i].returned[1].kind = kind

\* The i-th call raised the given message and returned nothing.
Failed(i, message) ==
    log[i].returned = None /\ log[i].raised = Some(message)

\* The line of the i-th call has the shape of a Team (of a Player) in the
\* mode of that call.
TeamShaped(i) == log[i].shape = "Team"

PlayerShaped(i) == log[i].shape = "Player"

\* The last call before the i-th that returned an entity of the kind; 0 if
\* there is none.
LastBefore(i, kind) ==
    LET js == {j \in 1..(i - 1) : Returned(j, kind)}
    IN  IF js = {} THEN 0 ELSE CHOOSE j \in js : \A k \in js : k <= j

\* No Team has been returned since the last Group was (or ever).
NoTeamSinceGroup(i) == LastBefore(i, "Team") <= LastBefore(i, "Group")

\* C1: a Team-shaped line read while current_group is unset, that is while
\* no call has returned a Group yet, raises TeamWithoutGroup and returns no
\* Team, in either mode and wherever in the sequence of reads it comes.
C1_TeamWithoutGroup ==
    \A i \in 1..Len(log) :
        /\ TeamShaped(i)
        /\ log[i].before.current_group = None \/ LastBefore(i, "Group") = 0
        => Failed(i, TeamWithoutGroup(log[i].line))

\* C1 happens: a Team line was refused in strict and in loose mode, the
\* second time after other reads had failed.
C1_Witness ==
    \E i, j \in 1..Len(log) :
        /\ i < j /\ j > 2
        /\ TeamShaped(i) /\ log[i].strict
        /\ Failed(i, TeamWithoutGroup(log[i].line))
        /\ TeamShaped(j) /\ ~log[j].strict
        /\ Failed(j, TeamWithoutGroup(log[j].line))

\* C2: a Player-shaped line read while current_team is unset, that is while
\* no Team has been returned since the last Group (or ever), raises
\* PlayerWithoutTeam and returns no Player; so it does after a Group alone.
C2_PlayerWithoutTeam ==
    \A i \in 1..Len(log) :
        /\ PlayerShaped(i)
        /\ log[i].before.current_team = None \/ NoTeamSinceGroup(i)
        => Failed(i, PlayerWithoutTeam(log[i].line))

\* C2 happens: a Player line was refused on a reader that had read a Group
\* and no Team.
C2_Witness ==
    \E i \in 1..Len(log) :
        /\ PlayerShaped(i)
        /\ LastBefore(i, "Group") > 0 /\ LastBefore(i, "Team") = 0
        /\ Failed(i, PlayerWithoutTeam(log[i].line))

\* C3: a read that returns a Group leaves current_team unset, and in four
\* consecutive reads Group, Team, Group, Player the Player read raises
\* PlayerWithoutTeam.
C3_GroupClearsTeam ==
    /\ \A i \in 1..Len(log) :
          Returned(i, "Group") =>
              IF i < Len(log) THEN log[i + 1].before.current_team = None
              ELSE current_team = None
    /\ \A i \in 4..Len(log) :
          /\ Returned(i - 3, "Group") /\ Returned(i - 2, "Team")
          /\ Returned(i - 1, "Group") /\ PlayerShaped(i)
          => Failed(i, PlayerWithoutTeam(log[i].line))

\* C3 happens: Group, Team, Group were read and then the Player was refused.
C3_Witness ==
    /\ Len(log) = 4
    /\ Returned(1, "Group") /\ Returned(2, "Team") /\ Returned(3, "Group")
    /\ log[3].before.current_team # None
    /\ PlayerShaped(4) /\ Failed(4, PlayerWithoutTeam(log[4].line))

\* C4: the group of every Team returned is the very Group that the last
\* Group read before it returned, and the team of every Player returned is
\* the very Team that the last Team read before it returned.
C4_ParentIsLastSeen ==
    \A i \in 1..Len(log) :
        /\ Returned(i, "Team") =>
              /\ LastBefore(i, "Group") > 0
              /\ log[i].returned[1].group = log[LastBefore(i, "Group")].returned[1]
        /\ Returned(i, "Player") =>
              /\ LastBefore(i, "Team") > 0
              /\ log[i].returned[1].team = log[LastBefore(i, "Team")].returned[1]

\* C4 happens: two Groups then a Team, or two Teams then a Player.
C4_Witness ==
    \/ /\ Len(log) = 3
       /\ Returned(1, "Group") /\ Returned(2, "Group") /\ Returned(3, "Team")
       /\ log[1].returned[1].name # log[2].returned[1].name
    \/ /\ Len(log) = 4
       /\ Returned(1, "Group") /\ Returned(2, "Team") /\ Returned(3, "Team")
       /\ Returned(4, "Player")
       /\ log[2].returned[1].name # log[3].returned[1].name

(***************************************************************************)
(* Group lines "<name> - <note>\n": a reader reads one, in either mode,    *)
(* and then Team and Group lines.                                          *)
(***************************************************************************)

RECURSIVE Strings(_, _)
\* The strings of at most n characters of alpha.
Strings(alpha, n) ==
    IF n = 0 THEN {""}
    ELSE LET shorter == Strings(alpha, n - 1)
         IN  shorter \cup {x \o c : x \in shorter, c \in alpha}

\* The longest name and the longest note of a Group line, and the number
\* of reads after it.
MaxName == 1

MaxNote == 3

MaxAfter == 2

\* Names have no tab; notes are not empty and may have tabs.
Names == Strings({"a", " ", "-"}, MaxName)

Notes == Strings({"a", " ", "-", "\t"}, MaxNote) \ {""}

GroupLine(name, note) == name \o " - " \o note \o "\n"

\* The lines read after the Group line.
AfterLines == {"\tt - n\n", "h - m\n"}

ReadGroupLine(name, note, strict) ==
    /\ Len(log) = 0
    /\ Read(GroupLine(name, note), strict)

ReadAfter(line) ==
    /\ Len(log) >= 1 /\ Len(log) <= MaxAfter
    /\ Read(line, TRUE)

\* The first read, of any Group line, in either mode.
ReadFirst ==
    /\ Len(log) = 0
    /\ \E name \in Names, note \in Notes, strict \in BOOLEAN :
          ReadGroupLine(name, note, strict)

NextGroup ==
    \/ ReadFirst
    \/ \E line \in AfterLines : ReadAfter(line)

SpecGroup == Init /\ [][NextGroup]_vars

\* The first call returned a Group of this name and note, and every Team
\* returned after it and before the next Group has this Group as its group.
ReadsGroup(name, note) ==
    /\ Returned(1, "Group")
    /\ log[1].returned[1].name = Some(name)
    /\ log[1].returned[1].note = Some(note)
    /\ \A i \in 2..Len(log) :
          Returned(i, "Team") /\ LastBefore(i, "Group") = 1
          => log[i].returned[1].group = log[1].returned[1]

\* s begins with the string p.
StartsWith(s, p) == Len(s) >= Len(p) /\ SubSeq(s, 1, Len(p)) = p

\* s contains the string p.
Contains(s, p) ==
    \E k \in 1..(Len(s) - Len(p) + 1) : SubSeq(s, k, k + Len(p) - 1) = p

RECURSIVE BeforeTab(_)
\* The part of s before its first tab.
BeforeTab(s) ==
    IF s = "" \/ SubSeq(s, 1, 1) = "\t" THEN ""
    ELSE SubSeq(s, 1, 1) \o BeforeTab(SubSeq(s, 2, Len(s)))

\* The note cannot be taken for the end of a longer name: before its first
\* tab it neither begins with the separator less its first space nor
\* contains the separator; the separator is " - " in strict mode and " -"
\* in loose mode.
Separable(note, strict) ==
    LET text == BeforeTab(note)
    IN  IF strict
        THEN ~StartsWith(text, "- ") /\ ~Contains(text, " - ")
        ELSE ~StartsWith(text, "-") /\ ~Contains(text, " -")

\* The ways to write a line as "<name> - <note>\n" with a tab-free name
\* and a non-empty note: the lengths of the name.
Splits(line) ==
    { k \in 0..(Len(line) - 5) :
        /\ SubSeq(line, k + 1, k + 3) = " - "
        /\ SubSeq(line, Len(line), Len(line)) = "\n"
        /\ ~Contains(SubSeq(line, 1, k), "\t") }

NameOf(line, k) == SubSeq(line, 1, k)

NoteOf(line, k) == SubSeq(line, k + 4, Len(line) - 1)

\* C5 as stated: for every tab-free name and every non-empty note, reading
\* "<name> - <note>\n" (in strict mode, the default of read) returns a Group
\* with exactly this name and this note, and the Teams read afterwards,
\* until the next Group, have it as parent.
C5_Original ==
    Len(log) >= 1 /\ log[1].strict =>
        \A k \in Splits(log[1].line) :
            ReadsGroup(NameOf(log[1].line, k), NoteOf(log[1].line, k))

\* C5, amended: the same for every tab-free name and every non-empty note
\* that, before its first tab, neither begins with "- " nor contains " - "
\* (in loose mode: neither begins with "-" nor contains " -").
C5_GroupLine ==
    Len(log) >= 1 =>
        \A k \in Splits(log[1].line) :
            Separable(NoteOf(log[1].line, k), log[1].strict)
            => ReadsGroup(NameOf(log[1].line, k), NoteOf(log[1].line, k))

\* C5 happens: a Group line with a dash in its name and in its note was
\* read, then a Team, and the Team has the Group as its group.
C5_Witness ==
    /\ Len(log) >= 2
    /\ log[1].line = GroupLine("-", "a-")
    /\ ReadsGroup("-", "a-")
    /\ Returned(2, "Team")

(***************************************************************************)
(* The two modes on the same line and the same reader: a reader reads a    *)
(* Group line and a Team line and, at any point of this, one more line of  *)
(* any form.                                                               *)
(***************************************************************************)

\* The longest body, and the most leading tabs, of the free-form lines.
MaxBody == 4

MaxTabs == 3

RECURSIVE Tabs(_)
Tabs(n) == IF n = 0 THEN "" ELSE "\t" \o Tabs(n - 1)

\* Free-form lines: tabs, a body of a letter, spaces and dashes, and the
\* line terminator or (the last line of a file) none.
FreeLines ==
    { Tabs(n) \o body \o end :
        n \in 0..MaxTabs, body \in Strings({"a", " ", "-"}, MaxBody),
        end \in {"\n", ""} }

\* Player lines, well-formed and with separators missing or doubled.
PlayerLines ==
    { "\t\t" \o reg \o "- " \o surname \o " " \o name \o c1 \o dob \o sp \o c2
             \o note \o "\n" :
        reg \in {"", "1 ", " "}, surname \in {"", "s"}, name \in {"", "n", "n m"},
        c1 \in {", ", ",", " ", ""}, dob \in {"", "1.1"}, sp \in {"", " ", "  "},
        c2 \in {", ", ",", " ", ""}, note \in {"", "x"} }

GrammarLines == FreeLines \cup PlayerLines

\* The lines that set the reader up.
SetupLines == <<"g - n\n", "\tt - n\n">>

\* All the calls so far were the setup reads.
InSetup ==
    /\ Len(log) <= Len(SetupLines)
    /\ \A i \in 1..Len(log) : log[i].line = SetupLines[i] /\ log[i].strict

Setup ==
    /\ InSetup /\ Len(log) < Len(SetupLines)
    /\ Read(SetupLines[Len(log) + 1], TRUE)

Probe(line, strict) ==
    /\ InSetup
    /\ Read(line, strict)

\* One more read, of any line, in either mode.
ProbeAny ==
    /\ InSetup
    /\ \E line \in GrammarLines, strict \in BOOLEAN : Probe(line, strict)

NextGrammar == Setup \/ ProbeAny

SpecGrammar == Init /\ [][NextGrammar]_vars

\* What the i-th call would have done in loose mode, on the same reader.
Loose(i) ==
    read(log[i].before.current_group, log[i].before.current_team,
         log[i].line, FALSE, i)

\* C6: whenever a read in strict mode returns an entity, the read of the
\* same line in loose mode on the same reader returns an entity of the same
\* kind.
C6_LooseAcceptsStrict ==
    \A i \in 1..Len(log) :
        log[i].strict /\ log[i].returned # None
        => /\ Loose(i).returned # None
           /\ Loose(i).returned[1].kind = log[i].returned[1].kind

\* C6 happens: strict mode returned a Player on a reader with a Team, and
\* loose mode returns a Player for the same line.
C6_Witness ==
    \E i \in 1..Len(log) :
        /\ log[i].strict /\ Returned(i, "Player")
        /\ log[i].before.current_team # None
        /\ Loose(i).returned # None
        /\ Loose(i).returned[1].kind = "Player"

\* C7: for every line that both modes accept, the two modes return the
\* same field values.
C7_SameFields ==
    \A i \in 1..Len(log) :
        log[i].strict /\ log[i].returned # None /\ Loose(i).returned # None
        => Loose(i).returned = log[i].returned

(***************************************************************************)
(* Properties of conversions.  A conversion stops at the first read that   *)
(* fails, so the record of the i-th line read is csv_output[i + 1].        *)
(***************************************************************************)

\* The cell that the writer makes of a field.
Cell(field) == IF field = None THEN "" ELSE field[1]

\* C8: the row of a Group has exactly 2 fields, its name and its note; the
\* row of a Team has exactly 4, the row of its Group followed by its name
\* and note; the row of a Player has exactly 9, the row of its Team followed
\* by its registration number, name, surname, date of birth and note.
C8_RowProjection ==
    \A i \in 1..Len(log) :
        log[i].returned # None =>
            /\ i + 1 <= Len(csv_output)
            /\ LET e == log[i].returned[1]
                   row == csv_output[i + 1]
               IN  CASE e.kind = "Group" ->
                          /\ Len(row) = 2
                          /\ row = <<Cell(e.name), Cell(e.note)>>
                     [] e.kind = "Team" ->
                          /\ Len(row) = 4
                          /\ row = csv_output[LastBefore(i, "Group") + 1]
                                   \o <<Cell(e.name), Cell(e.note)>>
                     [] e.kind = "Player" ->
                          /\ Len(row) = 9
                          /\ row = csv_output[LastBefore(i, "Team") + 1]
                                   \o <<Cell(e.registration_number), Cell(e.name),
                                        Cell(e.surname), Cell(e.date_of_birth),
                                        Cell(e.note)>>

\* C8 happens: a conversion in loose mode wrote the rows of a Group, of a
\* Team and of a Player.
C8_Witness ==
    /\ pc = "returned" /\ ~convert_strict
    /\ dtb_input = <<"h -m\n", ExampleInput[2], ExampleInput[3]>>
    /\ Len(csv_output) = 4
    /\ Len(csv_output[2]) = 2 /\ Len(csv_output[3]) = 4 /\ Len(csv_output[4]) = 9

IsHeader(record) ==
    /\ Len(record) = 9
    /\ Len(Group_header) = 2 /\ Len(Team_header) = 2 /\ Len(Player_header) = 5
    /\ SubSeq(record, 1, 2) = writerow(Group_header)
    /\ SubSeq(record, 3, 4) = writerow(Team_header)
    /\ SubSeq(record, 5, 9) = writerow(Player_header)

\* C10: in every conversion the header is written exactly once, as the
\* first record, before any line is read or any row written, whatever the
\* input: nothing is read or written before it, it is there when a line is
\* read or a further record written, and no later record is a header.
C10_HeaderFirstOnce ==
    /\ [](pc = "convert" => csv_output = <<>> /\ log = <<>>)
    /\ [](pc # "convert" =>
            /\ Len(csv_output) >= 1
            /\ IsHeader(csv_output[1])
            /\ \A i \in 2..Len(csv_output) : ~IsHeader(csv_output[i]))
    /\ [][(log' # log \/ (csv_output # <<>> /\ csv_output' # csv_output)) =>
            /\ csv_output # <<>>
            /\ IsHeader(csv_output[1])
            /\ csv_output'[1] = csv_output[1]]_vars

\* C10 happens: the first line of the input failed, and the output holds
\* the header alone.
C10_Witness ==
    /\ pc = "raised" /\ Len(log) = 1
    /\ Len(csv_output) = 1 /\ IsHeader(csv_output[1])


\* The cells of the entity's own fields, the last of its row.
OwnCells(e) ==
    CASE e.kind = "Group" -> <<Cell(e.name), Cell(e.note)>>
      [] e.kind = "Team" -> <<Cell(e.name), Cell(e.note)>>
      [] e.kind = "Player" ->
            <<Cell(e.registration_number), Cell(e.name), Cell(e.surname),
              Cell(e.date_of_birth), Cell(e.note)>>

\* The record ends with the cells.
EndsWith(record, cells) ==
    /\ Len(record) >= Len(cells)
    /\ SubSeq(record, Len(record) - Len(cells) + 1, Len(record)) = cells

\* C11: when the read of line k is the first to fail, convert leaves with
\* that error: a failed read is the last one and convert has raised; the
\* lines were read in the order of the input; the output is the header and
\* one row for each of the lines 1..k-1, in that order, and none for line
\* k; and after that nothing more is read or written.
C11_StopsAtFirstFailure ==
    /\ [](\A i \in 1..Len(log) :
            /\ log[i].line = dtb_input[i]
            /\ log[i].returned = None =>
                  /\ i = Len(log)
                  /\ pc = "raised"
                  /\ log[i].raised # None)
    /\ [](pc = "raised" =>
            /\ Len(log) >= 1
            /\ log[Len(log)].returned = None
            /\ Len(csv_output) = Len(log)
            /\ IsHeader(csv_output[1])
            /\ \A i \in 1..(Len(log) - 1) :
                  EndsWith(csv_output[i + 1], OwnCells(log[i].returned[1])))
    /\ [][pc = "raised" => log' = log /\ csv_output' = csv_output]_vars

\* C11 happens: the third line of an input is the first that read fails
\* on, and the output holds the header and the rows of the first two lines.
C11_Witness ==
    /\ pc = "raised" /\ Len(log) = 3 /\ Len(dtb_input) = 3
    /\ log[1].returned # None /\ log[2].returned # None
    /\ log[3].returned = None
    /\ Len(csv_output) = 3


\* C12: every record convert writes, the header and the rows alike, has 9
\* cells: the row of a Group is its 2 fields followed by 7 empty cells, the
\* row of a Team its 4 fields followed by 5 empty cells.
C12_NineColumns ==
    /\ \A i \in 1..Len(csv_output) : Len(csv_output[i]) = 9
    /\ \A i \in 1..Len(log) :
          log[i].returned # None /\ i + 1 <= Len(csv_output) =>
              LET e == log[i].returned[1]
                  row == csv_output[i + 1]
                  fields == CASE e.kind = "Group" -> 2
                              [] e.kind = "Team" -> 4
                              [] e.kind = "Player" -> 9
              IN  /\ EndsWith(SubSeq(row, 1, fields), OwnCells(e))
                  /\ \A j \in (fields + 1)..9 : row[j] = ""


\* C13: a conversion of an input whose first line is "\tteam - note\n",
\* in either mode, does not return: the read of that line fails with
\* TeamWithoutGroup, it is the only read, and no row is ever written after
\* the header.
C13_TeamFirst ==
    dtb_input # <<>> /\ dtb_input[1] = "\tteam - note\n" =>
        /\ pc # "returned"
        /\ Len(csv_output) <= 1
        /\ Len(log) <= 1
        /\ Len(log) = 1 =>
              /\ pc = "raised"
              /\ TeamShaped(1)
              /\ Failed(1, TeamWithoutGroup("\tteam - note\n"))

\* C13 happens: a conversion in loose mode of three lines, the first of
\* them "\tteam - note\n", has failed, with the header alone written.
C13_Witness ==
    /\ Len(dtb_input) = 3 /\ dtb_input[1] = "\tteam - note\n"
    /\ dtb_input[2] = ExampleInput[1]
    /\ ~convert_strict
    /\ pc = "raised" /\ Len(log) = 1 /\ Len(csv_output) = 1


\* The conversion has ended, at line k, with one of the two errors of the
\* hierarchy.
StructuralError(k) ==
    /\ pc = "raised" /\ Len(log) = k /\ k >= 1
    /\ \/ Failed(k, TeamWithoutGroup(log[k].line))
       \/ Failed(k, PlayerWithoutTeam(log[k].line))

\* C14: the errors of the hierarchy do not depend on the mode.  When the
\* conversion of a file in strict mode fails at line k with TeamWithoutGroup
\* or PlayerWithoutTeam, the conversion of the same file in loose mode fails
\* at line k too, with the same error, after as many rows.  (The outcome of
\* the other conversion is that of convert as a function, which is the
\* outcome of every conversion that has ended.)
C14_StructuralErrorsInBothModes ==
    /\ pc \in {"raised", "returned"} =>
          convert(dtb_input, convert_strict) =
              [raised |-> IF pc = "raised" THEN log[Len(log)].raised ELSE None,
               reads |-> Len(log),
               rows |-> Len(csv_output) - 1]
    /\ convert_strict /\ StructuralError(Len(log)) =>
          LET loose == convert(dtb_input, FALSE)
          IN  /\ loose.reads = Len(log)
              /\ loose.raised = log[Len(log)].raised
              /\ loose.rows = Len(csv_output) - 1

\* C14 happens: a conversion in strict mode has read a Group and failed at
\* the second of three lines, a Player without Team.
C14_Witness ==
    /\ convert_strict /\ StructuralError(2) /\ Len(dtb_input) = 3
    /\ Returned(1, "Group") /\ PlayerShaped(2)
    /\ Failed(2, PlayerWithoutTeam(dtb_input[2]))
    /\ Len(csv_output) = 2


\* The error box tells to try again without DTB strict mode.
Suggests(box) ==
    /\ box.title = "Error"
    /\ EndsWith(box.message, "Try again without DTB strict mode.")

\* C15: when a conversion started from the window fails with an invalid
\* DTB file, the error box tells to try again without strict mode only if
\* that conversion ran in strict mode; after a conversion with strict mode
\* off, the box shows the message of the error and nothing else.
C15_SuggestsOnlyWhenStrict ==
    pc = "idle" /\ dialog # None /\ dialog[1].title = "Error" =>
        /\ Suggests(dialog[1]) => convert_strict
        /\ ~convert_strict => dialog[1].message = log[Len(log)].raised[1]


\* The tracker right after the i-th call.
After(i) ==
    IF i < Len(log)
    THEN log[i + 1].before
    ELSE [current_group |-> current_group, current_team |-> current_team]

\* C16: a read that returns a Player leaves current_group and current_team
\* as they were, so Player lines read one after the other all get the same
\* Team, the current one.
C16_PlayerKeepsTracker ==
    \A i \in 1..Len(log) :
        Returned(i, "Player") =>
            /\ After(i) = log[i].before
            /\ log[i].before.current_team = Some(log[i].returned[1].team)
            /\ \A j \in (i + 1)..Len(log) :
                  (\A k \in i..j : Returned(k, "Player")) =>
                      log[j].returned[1].team = log[i].returned[1].team

\* C16 happens: after a Group and a Team, two Players were read; both have
\* that Team, which still is the current one.
C16_Witness ==
    /\ Len(log) = 4
    /\ Returned(1, "Group") /\ Returned(2, "Team")
    /\ Returned(3, "Player") /\ Returned(4, "Player")
    /\ log[3].returned[1].team = log[2].returned[1]
    /\ log[4].returned[1].team = log[2].returned[1]
    /\ current_team = Some(log[2].returned[1])
    /\ current_group = Some(log[1].returned[1])

\* C20: whenever current_team is set, current_group is set too, and the
\* group of the current Team is that very Group.
C20_TeamUnderCurrentGroup ==
    current_team # None =>
        /\ current_group # None
        /\ current_team[1].group = current_group[1]

\* C20 happens: after reads that failed and a Group replaced by another, a
\* Team is current, under the second Group.
C20_Witness ==
    /\ Len(log) = 4
    /\ log[1].returned = None
    /\ Returned(2, "Group") /\ Returned(3, "Group") /\ Returned(4, "Team")
    /\ log[2].returned[1] # log[3].returned[1]
    /\ current_team = Some(log[4].returned[1])
    /\ current_team[1].group = log[3].returned[1]


\* The i-th call returned nothing and raised the error of a line of unknown
\* type, its message carrying the line as it was read.
UnknownLine(i) ==
    /\ log[i].returned = None
    /\ log[i].raised # None
    /\ StartsWith(log[i].raised[1], "DtbReader: Unknown line type:")
    /\ Contains(log[i].raised[1], log[i].line)
    /\ Len(log[i].raised[1]) >= Len("DtbReader: Unknown line type:") + Len(log[i].line)

\* C17: in both modes and whatever the tracker holds, the read of a line
\* that has none of the three shapes raises UnknownLineType with the line in
\* its message; lines that begin with three tabs or more, and lines without
\* a dash, are such lines.
C17_UnknownLineType ==
    \A i \in 1..Len(log) :
        /\ log[i].shape = "Unknown" <=> UnknownLine(i)
        /\ StartsWith(log[i].line, "\t\t\t") => UnknownLine(i)
        /\ ~Contains(log[i].line, "-") => UnknownLine(i)

\* C17 happens: on a reader with a Group and a Team, a line of three tabs
\* that would be a Team line with one was read in loose mode and raised
\* UnknownLineType.
C17_Witness ==
    /\ Len(log) = 3
    /\ ~log[3].strict
    /\ log[3].before.current_group # None /\ log[3].before.current_team # None
    /\ log[3].line = "\t\t\ta -a\n"
    /\ UnknownLine(3)


\* C18: every conversion ends, returning or raising; it raises only when a
\* read has failed; and once every line of the input has been read it
\* returns, whatever the tracker holds then: an input that ends after a
\* Group or a Team line, or has no line at all, is converted.
C18_Terminates ==
    /\ <>(pc \in {"returned", "raised"})
    /\ [](pc = "raised" => Len(log) >= 1 /\ log[Len(log)].returned = None)
    /\ (pc = "loop" /\ Len(log) = Len(dtb_input)) ~> (pc = "returned")
    /\ [](pc = "returned" =>
            /\ Len(log) = Len(dtb_input)
            /\ Len(csv_output) = Len(dtb_input) + 1
            /\ \A i \in 1..Len(log) : log[i].returned # None)

\* C18 happens: the conversion of a Group line and a Team line returned,
\* the Team still current.
C18_Witness ==
    /\ pc = "returned"
    /\ dtb_input = <<ExampleInput[1], ExampleInput[2]>>
    /\ current_group # None /\ current_team # None
    /\ Len(csv_output) = 3


\* C19: every conversion begins with a tracker of its own, current_group
\* and current_team both unset, whatever the conversions before it left:
\* its first read finds nothing set, so a first line that is a Team line
\* fails with TeamWithoutGroup and one that is a Player line with
\* PlayerWithoutTeam.
C19_FreshTracker ==
    /\ pc = "loop" /\ Len(log) = 0 => current_group = None /\ current_team = None
    /\ Len(log) >= 1 =>
          /\ log[1].before = [current_group |-> None, current_team |-> None]
          /\ TeamShaped(1) => Failed(1, TeamWithoutGroup(log[1].line))
          /\ PlayerShaped(1) => Failed(1, PlayerWithoutTeam(log[1].line))

\* C19 happens: the conversion before ended with a Group and a Team set,
\* and this one has failed on its first line, a Team line.
C19_Witness ==
    /\ earlier # None
    /\ earlier[1].current_group # None /\ earlier[1].current_team # None
    /\ pc = "raised" /\ Len(log) = 1
    /\ TeamShaped(1) /\ Failed(1, TeamWithoutGroup(dtb_input[1]))
    /\ current_group = None /\ current_team = None


\* C21: a read that fails raises one of the three errors and leaves
\* current_group and current_team exactly as they were before the call, so
\* the read after it has the outcome it would have without the failed one.
C21_FailedReadKeepsTracker ==
    \A i \in 1..Len(log) :
        log[i].returned = None =>
            /\ \/ Failed(i, UnknownLineType(log[i].line))
               \/ Failed(i, TeamWithoutGroup(log[i].line))
               \/ Failed(i, PlayerWithoutTeam(log[i].line))
            /\ After(i) = log[i].before
            /\ i < Len(log) =>
                  LET r == read(log[i].before.current_group, log[i].before.current_team,
                                log[i + 1].line, log[i + 1].strict, i + 1)
                  IN  /\ r.returned = log[i + 1].returned
                      /\ r.raised = log[i + 1].raised

\* C21 happens: with a Group and a Team set, a line of no shape failed,
\* and the Player read after it has that Team.
C21_Witness ==
    /\ Len(log) = 4
    /\ Returned(1, "Group") /\ Returned(2, "Team")
    /\ Failed(3, UnknownLineType(log[3].line))
    /\ log[3].before.current_team = Some(log[2].returned[1])
    /\ Returned(4, "Player")
    /\ log[4].returned[1].team = log[2].returned[1]
    /\ current_group = Some(log[1].returned[1])

====
